---- MODULE Spec2Model ----
(***************************************************************************)
(* Model of src/stats/app.py: the log-based windowed analytics engine of   *)
(* the streaming radio service (parse_request, compute_window_stats,       *)
(* percentile, and the /api/stats handler with its process-wide listener   *)
(* registry LAST_SEEN / LAST_SHORT_COUNT / LAST_CLEANUP).                  *)
(*                                                                         *)
(* Time is in whole seconds.  A Python None is the empty tuple <<>> and a  *)
(* present value v is <<v>>.  A quotient a/b is the record                 *)
(* [num |-> a, den |-> b] with den > 0.                                    *)
(***************************************************************************)
EXTENDS Integers, Sequences, FiniteSets, TLC

VARIABLES
  WINDOW_SECONDS,       \* app.py:14, read once from the environment
  LONG_WINDOW_SECONDS,  \* app.py:15
  SESSION_TTL_SECONDS,  \* app.py:16
  LAST_SEEN,            \* app.py:21, key -> last-seen instant
  LAST_SHORT_COUNT,     \* app.py:22, None before the first poll
  LAST_CLEANUP,         \* app.py:23
  clock,                \* time.time()
  polls,                \* number of requests started so far
  resp,                 \* SeqSpec: what the last completed stats() computed
  pc,                   \* Spec: where each request thread stands in stats()
  loc,                  \* Spec: each request thread's local variables
  busy,                 \* Spec: the polls of the current overlap period
  cw                    \* one call of a function of app.py on its own

vars == << WINDOW_SECONDS, LONG_WINDOW_SECONDS, SESSION_TTL_SECONDS,
           LAST_SEEN, LAST_SHORT_COUNT, LAST_CLEANUP, clock, polls, resp,
           pc, loc, busy, cw >>

config == << WINDOW_SECONDS, LONG_WINDOW_SECONDS, SESSION_TTL_SECONDS >>

(***************************************************************************)
(* Bounds of the model.                                                    *)
(***************************************************************************)
MaxPolls == 3
MaxLines == 2
MaxEvents == 3
MaxRequests == 2
MaxValues == 4
MaxLabels == 3

(***************************************************************************)
(* Program constants.                                                      *)
(***************************************************************************)
SEGMENT_SECONDS == 4
DEFAULT_WINDOW_SECONDS == 60
DEFAULT_LONG_WINDOW_SECONDS == 300
DEFAULT_SESSION_TTL_SECONDS == 21600
CLEANUP_INTERVAL == 60
StartTime == 1000

(***************************************************************************)
(* Optional values and quotients.                                          *)
(***************************************************************************)
None == << >>
Some(v) == << v >>
IsNone(x) == x = << >>
Val(x) == x[1]

Ratio(a, b) == [num |-> a, den |-> b]
RatioLE(r, s) == r.num * s.den <= s.num * r.den
RatioEq(r, s) == r.num * s.den = s.num * r.den
Zero == Ratio(0, 1)
One == Ratio(1, 1)

Min(a, b) == IF a <= b THEN a ELSE b
Max(a, b) == IF a >= b THEN a ELSE b
SetMin(S) == CHOOSE x \in S : \A y \in S : x <= y
SetMax(S) == CHOOSE x \in S : \A y \in S : x >= y
Range(s) == { s[i] : i \in 1..Len(s) }

RECURSIVE SumSeq(_)
SumSeq(s) == IF s = << >> THEN 0 ELSE Head(s) + SumSeq(Tail(s))

(***************************************************************************)
(* Log lines.  A line is the sequence of its parts, split on the double    *)
(* quote; a part is the sequence of its whitespace-separated tokens.  A    *)
(* token of the first part is [t |-> "word", v |-> text] or, for the       *)
(* bracketed date, [t |-> "bracket", v |-> d] where d is <<t>> for a       *)
(* well-formed date denoting instant t and <<>> for text strptime rejects. *)
(* A path is the sequence of its pieces (directory prefix, name,           *)
(* extension); a status token is its sequence of characters; a user agent  *)
(* is the token sequence of its part (the empty string is <<>>).           *)
(***************************************************************************)
Word(text) == [t |-> "word", v |-> text]
Bracket(d) == [t |-> "bracket", v |-> d]

Digits == { "0", "1", "2", "3", "4", "5", "6", "7", "8", "9" }
DigitVal(c) ==
  CASE c = "0" -> 0 [] c = "1" -> 1 [] c = "2" -> 2 [] c = "3" -> 3
    [] c = "4" -> 4 [] c = "5" -> 5 [] c = "6" -> 6 [] c = "7" -> 7
    [] c = "8" -> 8 [] c = "9" -> 9

\* characters that str.isdigit() accepts and int() refuses: the superscript
\* and circled digits and the like
OtherDigits == { "sup2" }

\* an exception leaving a function: << name, "raised" >>
Raise(name) == << name, "raised" >>
Raised(x) == Len(x) = 2

\* int(tok) raises ValueError for a character that is no decimal digit
IntRaises(tok) == \E i \in 1..Len(tok) : tok[i] \notin Digits

\* str.isdigit(): non-empty and every character a digit
isdigit(tok) ==
  tok /= << >> /\ \A i \in 1..Len(tok) : tok[i] \in Digits \cup OtherDigits

RECURSIVE int(_)
int(tok) ==
  IF tok = << >> THEN 0
  ELSE 10 * int(SubSeq(tok, 1, Len(tok) - 1)) + DigitVal(tok[Len(tok)])

upper(m) ==
  CASE m = "get" -> "GET" [] m = "post" -> "POST" [] m = "head" -> "HEAD"
    [] OTHER -> m

startswith(path, prefix) == path /= << >> /\ path[1] = prefix
endswith(path, suffix) == path /= << >> /\ path[Len(path)] = suffix

IsBracket(tok) == tok.t = "bracket"

\* parse_timestamp: the first bracketed field of the line, or None
parse_timestamp(line) ==
  LET toks == IF line = << >> THEN << >> ELSE line[1]
      idx == { i \in 1..Len(toks) : IsBracket(toks[i]) }
  IN IF idx = { } THEN None ELSE toks[SetMin(idx)].v

\* parse_request: None (rejected), Some(event), or the ValueError of line 75
parse_request(line) ==
  IF Len(line) < 2 THEN None            \* no double quote in the line
  ELSE IF Len(line) < 3 THEN None
  ELSE
    LET req_bits == line[2]
        after == line[3]
    IN IF Len(req_bits) < 2 THEN None
       ELSE IF upper(req_bits[1]) /= "GET" THEN None
       ELSE
         LET path == req_bits[2]
             numeric == after /= << >> /\ isdigit(after[1])
             status == IF numeric THEN Some(int(after[1])) ELSE None
             ua == IF Len(line) >= 6 THEN line[6] ELSE << >>
             ip == IF line[1] = << >> THEN ""
                   ELSE IF IsBracket(line[1][1]) THEN "["
                   ELSE line[1][1].v
             ts == parse_timestamp(line)
             kind == IF startswith(path, "/hls/") /\ endswith(path, ".ts")
                     THEN "segment"
                     ELSE IF startswith(path, "/hls/") /\ endswith(path, ".m3u8")
                     THEN "playlist"
                     ELSE "other"
         IN IF numeric /\ IntRaises(after[1]) THEN Raise("ValueError")
            ELSE Some([ ts |-> ts, ip |-> ip, ua |-> ua, path |-> path,
                        status |-> status, kind |-> kind,
                        key |-> << ip, "|", ua >> ])

(***************************************************************************)
(* percentile (app.py:122-133).  The rank k = (n-1)*pct/100 is kept as the *)
(* numerator (n-1)*pct over 100, so the interpolation is exact.            *)
(***************************************************************************)
NumLess(a, b) == a < b

\* the sort of line 125 forgotten
unsorted(values) == values

sorted(values) == SortSeq(values, NumLess)

percentile(values, pct) ==
  IF values = << >> THEN None
  ELSE
    LET v == sorted(values)
        n == Len(v)
        k100 == (n - 1) * pct
        f == k100 \div 100
        c == IF k100 % 100 = 0 THEN f ELSE f + 1
    IN IF n = 1 THEN Some(Ratio(v[1], 1))
       ELSE IF f = c THEN Some(Ratio(v[f + 1], 1))
       ELSE Some(Ratio(100 * v[f + 1] + (v[c + 1] - v[f + 1]) * (k100 - 100 * f),
                       100))

(***************************************************************************)
(* compute_window_stats (app.py:136-226).                                  *)
(***************************************************************************)
StatusOk(e) == IsNone(e.status) \/ Val(e.status) < 400
StatusFail(e) == ~IsNone(e.status) /\ Val(e.status) >= 400

\* app.py:138
InWindow(e, window_start) == ~IsNone(e.ts) /\ Val(e.ts) >= window_start

\* the floor of line 149 forgotten
EffectiveWindowUnfloored(window_seconds, coverage_seconds) ==
  IF coverage_seconds > 0
  THEN Min(window_seconds, coverage_seconds)
  ELSE window_seconds

\* app.py:146-150
EffectiveWindow(window_seconds, coverage_seconds) ==
  LET w == IF coverage_seconds > 0
           THEN Min(window_seconds, coverage_seconds)
           ELSE window_seconds
  IN IF w < 1 THEN 1 ELSE w

\* app.py:205-207
CoverageRatio(window_seconds, coverage_seconds) ==
  IF window_seconds > 0
  THEN Some(IF coverage_seconds > 0
            THEN (IF coverage_seconds >= window_seconds THEN One
                  ELSE Ratio(coverage_seconds, window_seconds))
            ELSE Zero)
  ELSE None

\* a kind without events reported as a rate of 0 instead of None
SuccessRateZero(kind_events) ==
  LET ok == Len(SelectSeq(kind_events, StatusOk))
      fail == Len(SelectSeq(kind_events, StatusFail))
      denom == ok + fail
  IN IF denom > 0 THEN Some(Ratio(ok, denom)) ELSE Some(Zero)

\* app.py:164-172: ok / (ok + fail), None when the kind has no event
SuccessRate(kind_events) ==
  LET ok == Len(SelectSeq(kind_events, StatusOk))
      fail == Len(SelectSeq(kind_events, StatusFail))
      denom == ok + fail
  IN IF denom > 0 THEN Some(Ratio(ok, denom)) ELSE None

\* the continue of line 178 forgotten
SessionSkipsNothing(e) == FALSE

\* app.py:177-178: the events the session loop skips
SessionSkips(e) == ~IsNone(e.status) /\ Val(e.status) >= 400

\* app.py:174-185: the sessions dict after the first n segment events, with
\* its insertion order
RECURSIVE SessionFold(_, _)
SessionFold(segment_events, n) ==
  IF n = 0 THEN [order |-> << >>, sessions |-> << >>]
  ELSE
    LET s == SessionFold(segment_events, n - 1)
        e == segment_events[n]
        key == e.key
        ts == Val(e.ts)
    IN IF SessionSkips(e) THEN s
       ELSE IF key \notin DOMAIN s.sessions
       THEN [order |-> Append(s.order, key),
             sessions |-> s.sessions @@ (key :> [first |-> ts, last |-> ts])]
       ELSE [s EXCEPT !.sessions[key] =
                        [first |-> Min(@.first, ts), last |-> Max(@.last, ts)]]

\* app.py:187-190
SessionDurations(fold) ==
  [i \in 1..Len(fold.order) |->
     LET v == fold.sessions[fold.order[i]] IN Max(0, v.last - v.first)]

\* app.py:195-203: last_seen_by_key after the first n events of the window
RECURSIVE LastSeenFold(_, _)
LastSeenFold(events_w, n) ==
  IF n = 0 THEN << >>
  ELSE
    LET m == LastSeenFold(events_w, n - 1)
        e == events_w[n]
    IN IF IsNone(e.ts) THEN m
       ELSE IF e.key \notin DOMAIN m THEN m @@ (e.key :> Val(e.ts))
       ELSE IF Val(e.ts) > m[e.key] THEN [m EXCEPT ![e.key] = Val(e.ts)]
       ELSE m

IsSegment(e) == e.kind = "segment"
IsPlaylist(e) == e.kind = "playlist"
Is4xx(e) == ~IsNone(e.status) /\ Val(e.status) /= 0
            /\ 400 <= Val(e.status) /\ Val(e.status) < 500
Is5xx(e) == ~IsNone(e.status) /\ Val(e.status) /= 0
            /\ 500 <= Val(e.status) /\ Val(e.status) < 600

compute_window_stats(events, window_seconds, now) ==
  LET window_start == now - window_seconds
      Keep(e) == InWindow(e, window_start)
      events_w == SelectSeq(events, Keep)
      coverage_seconds ==
        IF events_w /= << >>
        THEN Max(0, now - SetMin({ Val(events_w[i].ts) : i \in 1..Len(events_w) }))
        ELSE 0
      effective_window == EffectiveWindow(window_seconds, coverage_seconds)
      segment_events == SelectSeq(events_w, IsSegment)
      playlist_events == SelectSeq(events_w, IsPlaylist)
      segment_requests == Len(segment_events)
      playlist_requests == Len(playlist_events)
      fold == SessionFold(segment_events, Len(segment_events))
  IN [ window_start |-> window_start,
       coverage_seconds |-> coverage_seconds,
       coverage_ratio |-> CoverageRatio(window_seconds, coverage_seconds),
       effective_window |-> effective_window,
       segment_requests |-> segment_requests,
       playlist_requests |-> playlist_requests,
       segment_per_sec |-> IF effective_window > 0
                           THEN Ratio(segment_requests, effective_window)
                           ELSE Zero,
       playlist_per_sec |-> IF effective_window > 0
                            THEN Ratio(playlist_requests, effective_window)
                            ELSE Zero,
       errors_4xx |-> Len(SelectSeq(events_w, Is4xx)),
       errors_5xx |-> Len(SelectSeq(events_w, Is5xx)),
       segment_success_rate |-> SuccessRate(segment_events),
       playlist_success_rate |-> SuccessRate(playlist_events),
       active_keys |-> DOMAIN fold.sessions,
       session_durations |-> SessionDurations(fold),
       last_seen_by_key |-> LastSeenFold(events_w, Len(events_w)) ]

(***************************************************************************)
(* The Listener Tracker step of stats() (app.py:273-301) as one unit.      *)
(***************************************************************************)
\* dict.get(key)
Get(reg, key) == IF key \in DOMAIN reg THEN Some(reg[key]) ELSE None

\* the comparison of line 277 made inclusive
IsNewInclusive(last, window_start) ==
  IsNone(last) \/ Val(last) <= window_start

\* app.py:277
IsNew(last, window_start) == IsNone(last) \/ Val(last) < window_start

\* the else branch of lines 279-280 forgotten
ClassifyDropsReturning(reg, active_keys, window_start) ==
  [ new_count |->
      Cardinality({ k \in active_keys : IsNew(Get(reg, k), window_start) }),
    returning_count |-> 0 ]

\* app.py:273-280
Classify(reg, active_keys, window_start) ==
  [ new_count |->
      Cardinality({ k \in active_keys : IsNew(Get(reg, k), window_start) }),
    returning_count |->
      Cardinality({ k \in active_keys : ~IsNew(Get(reg, k), window_start) }) ]

\* the comparison of line 284 reversed
MergeWritesOlder(prev, ts) == IsNone(prev) \/ ts < Val(prev)

\* app.py:284
MergeWrites(prev, ts) == IsNone(prev) \/ ts > Val(prev)

\* app.py:282-285
MergeLastSeen(reg, last_seen_by_key) ==
  [ k \in DOMAIN reg \cup DOMAIN last_seen_by_key |->
      IF k \in DOMAIN last_seen_by_key
         /\ MergeWrites(Get(reg, k), last_seen_by_key[k])
      THEN last_seen_by_key[k]
      ELSE reg[k] ]

\* app.py:287
SweepDue(now, last_cleanup) == now - last_cleanup > CLEANUP_INTERVAL

\* app.py:290
Expired(last, cutoff) == last < cutoff

\* app.py:288-291
Sweep(reg, now, ttl) ==
  LET cutoff == now - ttl
  IN [ k \in { x \in DOMAIN reg : ~Expired(reg[x], cutoff) } |-> reg[k] ]

\* app.py:295-300
\* the subtraction of line 298 with its operands exchanged
DeltaShortReversed(count, last_short_count) ==
  IF IsNone(last_short_count) THEN None
  ELSE Some(Val(last_short_count) - count)

DeltaShort(count, last_short_count) ==
  IF IsNone(last_short_count) THEN None
  ELSE Some(count - Val(last_short_count))

DeltaShortPct(count, last_short_count) ==
  IF ~IsNone(last_short_count) /\ Val(last_short_count) > 0
  THEN Some(Ratio(count - Val(last_short_count), Val(last_short_count)))
  ELSE None

\* app.py:301
NextShortCount(count) == Some(count)

\* app.py:273-301 run without interruption on the globals g
ListenerTracker(g, now, ttl, active_keys, window_start, last_seen_by_key) ==
  LET cls == Classify(g.LAST_SEEN, active_keys, window_start)
      merged == MergeLastSeen(g.LAST_SEEN, last_seen_by_key)
      due == SweepDue(now, g.LAST_CLEANUP)
      count == Cardinality(active_keys)
  IN [ LAST_SEEN |-> IF due THEN Sweep(merged, now, ttl) ELSE merged,
       LAST_CLEANUP |-> IF due THEN now ELSE g.LAST_CLEANUP,
       LAST_SHORT_COUNT |-> NextShortCount(count),
       swept |-> due,
       new_count |-> cls.new_count,
       returning_count |-> cls.returning_count,
       short_listener_count |-> count,
       delta_short |-> DeltaShort(count, g.LAST_SHORT_COUNT),
       delta_short_pct |-> DeltaShortPct(count, g.LAST_SHORT_COUNT) ]

(***************************************************************************)
(* The files stats() reads.  A file is None when it does not exist.        *)
(***************************************************************************)
\* a missing file reported with the epoch as its modification time
file_mtime_epoch(playlist) == IF IsNone(playlist) THEN Some(0) ELSE playlist

\* app.py:26-30
file_mtime(playlist) == playlist

\* app.py:33-43: bounded logs fit in MAX_TAIL_BYTES, so the tail is the file
tail_lines(log) == IF IsNone(log) THEN << >> ELSE Val(log)

\* app.py:241-244
estimate_live_latency(playlist_age, segment_seconds) ==
  IF IsNone(playlist_age) THEN None
  ELSE Some(Max(0, Val(playlist_age) + segment_seconds))

\* the test of lines 263-264 forgotten
KeepsEventAnyKind(info) == ~IsNone(info)

\* app.py:261-264: the parsed lines the handler keeps
KeepsEvent(info) == ~IsNone(info) /\ Val(info).kind /= "other"

\* app.py:258-265
ParseLog(lines) ==
  LET infos == [i \in 1..Len(lines) |-> parse_request(lines[i])]
      kept == SelectSeq(infos, KeepsEvent)
  IN [i \in 1..Len(kept) |-> Val(kept[i])]

\* app.py:260: the kinds parse_request gave the lines it accepted
ParsedKinds(lines) ==
  { Val(parse_request(lines[i])).kind :
      i \in { j \in 1..Len(lines) : ~IsNone(parse_request(lines[j])) } }

\* the filter of line 268 forgotten
LongWindowEventsAll(events, long_start) == events

\* app.py:267-268
LongWindowEvents(events, long_start) ==
  LET Keep(e) == ~IsNone(e.ts) /\ Val(e.ts) >= long_start
  IN SelectSeq(events, Keep)

\* app.py:251-271: what one poll at instant now reads and aggregates
ReadAndAggregate(log, playlist, now, window_seconds, long_window_seconds) ==
  LET playlist_mtime == file_mtime(playlist)
      playlist_age == IF IsNone(playlist_mtime) THEN None
                      ELSE Some(Max(0, now - Val(playlist_mtime)))
      parsed == ParseLog(tail_lines(log))
      events == LongWindowEvents(parsed, now - long_window_seconds)
  IN [ now |-> now,
       parsed |-> parsed,
       playlist_age |-> playlist_age,
       \* playlist_age < SEGMENT_SECONDS * 3.5
       ingest_up |-> ~IsNone(playlist_age)
                     /\ 2 * Val(playlist_age) < SEGMENT_SECONDS * 7,
       parsed_kinds |-> ParsedKinds(tail_lines(log)),
       events |-> events,
       short_stats |-> compute_window_stats(events, window_seconds, now),
       long_stats |-> compute_window_stats(events, long_window_seconds, now) ]

\* app.py:303-375: the snapshot built from the aggregates a and the tracker
\* outcome t
Payload(a, t) ==
  LET sess == a.short_stats.session_durations
      total_req == a.short_stats.segment_requests
                   + a.short_stats.playlist_requests
  IN [ ingest_up |-> a.ingest_up,
       playlist_age_seconds |-> a.playlist_age,
       short_coverage_seconds |-> a.short_stats.coverage_seconds,
       short_coverage_ratio |-> a.short_stats.coverage_ratio,
       long_coverage_seconds |-> a.long_stats.coverage_seconds,
       long_coverage_ratio |-> a.long_stats.coverage_ratio,
       active_short |-> t.short_listener_count,
       active_long |-> Cardinality(a.long_stats.active_keys),
       delta_short |-> t.delta_short,
       delta_short_pct |-> t.delta_short_pct,
       new_short |-> t.new_count,
       returning_short |-> t.returning_count,
       avg_seconds |-> IF sess /= << >>
                       THEN Some(Ratio(SumSeq(sess), Len(sess))) ELSE None,
       p25_seconds |-> percentile(sess, 25),
       p50_seconds |-> percentile(sess, 50),
       p75_seconds |-> percentile(sess, 75),
       sample_count |-> Len(sess),
       segment_requests |-> a.short_stats.segment_requests,
       segment_per_sec |-> a.short_stats.segment_per_sec,
       segment_success_rate |-> a.short_stats.segment_success_rate,
       playlist_requests |-> a.short_stats.playlist_requests,
       playlist_per_sec |-> a.short_stats.playlist_per_sec,
       playlist_success_rate |-> a.short_stats.playlist_success_rate,
       total_4xx |-> a.short_stats.errors_4xx,
       total_5xx |-> a.short_stats.errors_5xx,
       rate_4xx |-> IF total_req > 0
                    THEN Ratio(a.short_stats.errors_4xx, total_req) ELSE Zero,
       rate_5xx |-> IF total_req > 0
                    THEN Ratio(a.short_stats.errors_5xx, total_req) ELSE Zero,
       live_latency_seconds_est |->
         estimate_live_latency(a.playlist_age, SEGMENT_SECONDS),
       server_time_unix |-> a.now ]

(***************************************************************************)
(* The environment: configuration, clock, access log and playlist.         *)
(***************************************************************************)
\* << WINDOW_SECONDS, LONG_WINDOW_SECONDS, SESSION_TTL_SECONDS >>: the
\* defaults, a TTL shorter than the long window, a short window longer than
\* the long one, and an empty short window
Configs ==
  { << DEFAULT_WINDOW_SECONDS, DEFAULT_LONG_WINDOW_SECONDS,
       DEFAULT_SESSION_TTL_SECONDS >>,
    << DEFAULT_WINDOW_SECONDS, DEFAULT_LONG_WINDOW_SECONDS, 100 >>,
    << DEFAULT_WINDOW_SECONDS, 30, 100 >>,
    << 0, DEFAULT_LONG_WINDOW_SECONDS, DEFAULT_SESSION_TTL_SECONDS >> }
ClockSteps == { CLEANUP_INTERVAL, CLEANUP_INTERVAL + 1 }

IPs == { "10.0.0.1", "10.0.0.2" }
UserAgent == << "VLC" >>
SegmentPath == << "/hls/", "live7", ".ts" >>
PlaylistPath == << "/hls/", "live", ".m3u8" >>
OtherPath == << "/", "index", ".html" >>

\* a combined-log line: ip - - [date] "method path HTTP/1.1" status bytes
\* "referer" "user agent"
LogLine(ip, date, method, path, status) ==
  << << Word(ip), Word("-"), Word("-"), Bracket(date) >>,
     << method, path, "HTTP/1.1" >>,
     << status, << "5", "1", "2" >> >>,
     << "-" >>,
     << >>,
     UserAgent,
     << >> >>

S200 == << "2", "0", "0" >>
S404 == << "4", "0", "4" >>
S503 == << "5", "0", "3" >>

\* the lines an access log read at instant now may hold
SampleLines(now) ==
  { LogLine(ip, Some(now), "GET", SegmentPath, S200) : ip \in IPs }
  \cup
  { LogLine("10.0.0.1", Some(now - 45), "GET", SegmentPath, S200),
    LogLine("10.0.0.2", Some(now - 200), "GET", SegmentPath, S200),
    LogLine("10.0.0.1", Some(now - 400), "GET", SegmentPath, S200),
    LogLine("10.0.0.2", None, "GET", SegmentPath, S200),
    LogLine("10.0.0.1", Some(now), "GET", PlaylistPath, S200),
    LogLine("10.0.0.2", Some(now), "GET", SegmentPath, S404),
    LogLine("10.0.0.2", Some(now), "GET", OtherPath, S200),
    LogLine("10.0.0.1", Some(now), "POST", SegmentPath, S200),
    << << Word("garbage") >> >> }

RECURSIVE SeqsUpTo(_, _)
SeqsUpTo(S, n) ==
  IF n = 0 THEN { << >> }
  ELSE LET shorter == SeqsUpTo(S, n - 1)
       IN shorter \cup { Append(s, x) : s \in shorter, x \in S }

\* the access log: missing, or a file of at most MaxLines lines
LogFiles(now) == { None } \cup { Some(ls) : ls \in SeqsUpTo(SampleLines(now), MaxLines) }

\* the logs of Spec: a listener active now and one last active 200 s ago
RaceLines(now) ==
  { LogLine("10.0.0.1", Some(now), "GET", SegmentPath, S200),
    LogLine("10.0.0.2", Some(now - 200), "GET", SegmentPath, S200) }

RaceLogs(now) == { Some(ls) : ls \in SeqsUpTo(RaceLines(now), MaxLines) }

\* the playlist's mtime: missing, just written, or stale
PlaylistFiles(now) == { None, Some(now - 2), Some(now - 20) }

Globals == [ LAST_SEEN |-> LAST_SEEN, LAST_SHORT_COUNT |-> LAST_SHORT_COUNT,
             LAST_CLEANUP |-> LAST_CLEANUP ]

NoResp == [ done |-> FALSE, error |-> None ]
NoCall == [ done |-> FALSE ]

\* app.py:14-16
InitConfig ==
  \E c \in Configs :
    /\ WINDOW_SECONDS = c[1]
    /\ LONG_WINDOW_SECONDS = c[2]
    /\ SESSION_TTL_SECONDS = c[3]

\* app.py:21-23 at import
InitGlobals ==
  /\ LAST_SEEN = << >>
  /\ LAST_SHORT_COUNT = None
  /\ LAST_CLEANUP = 0

Threads == { 1, 2 }

Init ==
  /\ InitConfig
  /\ InitGlobals
  /\ clock = StartTime
  /\ polls = 0
  /\ resp = NoResp
  /\ pc = [t \in Threads |-> "idle"]
  /\ loc = [t \in Threads |-> << >>]
  /\ busy = [ n |-> 0, base |-> << >> ]
  /\ cw = NoCall

\* app.py:377: the response is returned, and time passes until the next
\* request
Return ==
  /\ resp.done \/ ~IsNone(resp.error)
  /\ polls < MaxPolls
  /\ resp' = NoResp
  /\ \E d \in ClockSteps : clock' = clock + d
  /\ UNCHANGED << config, LAST_SEEN, LAST_SHORT_COUNT, LAST_CLEANUP, polls,
                  pc, loc, busy, cw >>

\* app.py:247-377: one request served from start to end
Stats ==
  /\ polls < MaxPolls
  /\ ~resp.done
  /\ IsNone(resp.error)
  /\ \E log \in LogFiles(clock), playlist \in PlaylistFiles(clock) :
       \E a \in { ReadAndAggregate(log, playlist, clock, WINDOW_SECONDS,
                                    LONG_WINDOW_SECONDS) } :
       \E t \in { ListenerTracker(Globals, clock, SESSION_TTL_SECONDS,
                                   a.short_stats.active_keys,
                                   a.short_stats.window_start,
                                   a.long_stats.last_seen_by_key) } :
          /\ LAST_SEEN' = t.LAST_SEEN
          /\ LAST_SHORT_COUNT' = t.LAST_SHORT_COUNT
          /\ LAST_CLEANUP' = t.LAST_CLEANUP
          /\ resp' = [ done |-> TRUE,
                       error |-> None,
                       log_missing |-> IsNone(log),
                       playlist_missing |-> IsNone(playlist),
                       now |-> clock,
                       parsed_kinds |-> a.parsed_kinds,
                       parsed |-> a.parsed,
                       events |-> a.events,
                       short_stats |-> a.short_stats,
                       long_stats |-> a.long_stats,
                       swept |-> t.swept,
                       payload |-> Payload(a, t) ]
  /\ polls' = polls + 1
  /\ UNCHANGED << config, clock, pc, loc, busy, cw >>

NextSeq == Stats \/ Return

SeqSpec == Init /\ [][NextSeq]_vars

(***************************************************************************)
(* FaultSpec: SeqSpec with polls that raise.  os.path.getmtime (line 28)   *)
(* and open (line 36) raise OSError subclasses of which file_mtime and     *)
(* tail_lines catch FileNotFoundError only, and parse_request may raise    *)
(* ValueError (line 75); stats() catches nothing.                          *)
(***************************************************************************)
\* a file that exists and cannot be read
Unreadable == Raise("PermissionError")

\* logs on which the poll raises: an unreadable one, and one with a line
\* whose status token int() refuses
FaultyLogs(now) ==
  { Unreadable,
    Some(<< LogLine("10.0.0.1", Some(now), "GET", SegmentPath,
                    << "sup2" >>) >>) }

\* app.py:252-260: the exception that ends the poll, "" when there is none
PollError(log, playlist) ==
  IF Raised(playlist) THEN playlist[1]
  ELSE IF Raised(log) THEN log[1]
  ELSE IF \E i \in 1..Len(tail_lines(log)) :
            Raised(parse_request(tail_lines(log)[i]))
  THEN "ValueError"
  ELSE ""

\* the assignment of line 301 moved before the files are read
AfterRaiseCountWritten(g) == [g EXCEPT !.LAST_SHORT_COUNT = Some(0)]

\* app.py:252-265 run before the first access to the globals at line 276:
\* a poll that raises there leaves them as they are
AfterRaise(g) == g

\* app.py:247-260: a request that ends with an exception
StatsRaises ==
  /\ polls < MaxPolls
  /\ ~resp.done
  /\ IsNone(resp.error)
  /\ \E log \in { None, Some(<< >>) } \cup FaultyLogs(clock),
        playlist \in PlaylistFiles(clock) \cup { Unreadable } :
       /\ PollError(log, playlist) /= ""
       /\ resp' = [ done |-> FALSE,
                    error |-> Some(PollError(log, playlist)) ]
  /\ \E g \in { AfterRaise(Globals) } :
       /\ LAST_SEEN' = g.LAST_SEEN
       /\ LAST_SHORT_COUNT' = g.LAST_SHORT_COUNT
       /\ LAST_CLEANUP' = g.LAST_CLEANUP
  /\ polls' = polls + 1
  /\ UNCHANGED << config, clock, pc, loc, busy, cw >>

NextFault == Stats \/ StatsRaises \/ Return

FaultSpec == Init /\ [][NextFault]_vars

(***************************************************************************)
(* Spec: the Flask development server (app.py:386) serves each request on  *)
(* its own thread, and stats() takes no lock.  Each action below is one    *)
(* access of thread t to the shared globals, with the local work up to the *)
(* next access.  loc[t] keeps the inputs of the thread's poll and the part *)
(* of the response the tracker step computes; outcome names the exception  *)
(* that ended the request, if any.                                         *)
(***************************************************************************)
Others(t) == Threads \ { t }
Quiet(t) == \A u \in Others(t) : pc[u] = "idle"

Goto(t, label) == pc' = [pc EXCEPT ![t] = label]
Set(t, r) == loc' = [loc EXCEPT ![t] = r]

\* the order a for loop visits a set or a dict in is not fixed by the model
Pick(S) == S

\* app.py:251-274
Begin(t) ==
  /\ pc[t] = "idle"
  /\ polls < MaxRequests
  /\ polls' = polls + 1
  /\ \E d \in (IF polls = 0 THEN { 0 } ELSE { 0 } \cup ClockSteps) :
     \E log \in RaceLogs(clock + d) :
     \E a \in { ReadAndAggregate(log, Some(clock + d - 2), clock + d,
                                 WINDOW_SECONDS, LONG_WINDOW_SECONDS) } :
       /\ clock' = clock + d
       /\ Set(t, [ now |-> a.now,
                   active_keys |-> a.short_stats.active_keys,
                   window_start |-> a.short_stats.window_start,
                   last_seen_by_key |-> a.long_stats.last_seen_by_key,
                   todo |-> a.short_stats.active_keys,
                   key |-> None, ts |-> 0, cutoff |-> 0,
                   new_count |-> 0, returning_count |-> 0,
                   swept |-> FALSE,
                   delta_short |-> None, delta_short_pct |-> None,
                   outcome |-> "running" ])
  /\ busy' = IF Quiet(t) THEN [ n |-> 1, base |-> Globals ]
             ELSE [ busy EXCEPT !.n = @ + 1 ]
  /\ Goto(t, "classify")
  /\ UNCHANGED << config, LAST_SEEN, LAST_SHORT_COUNT, LAST_CLEANUP, resp, cw >>

\* app.py:275-280, one iteration; after the last, line 282 starts the merge
ClassifyKey(t) ==
  /\ pc[t] = "classify"
  /\ IF loc[t].todo = { }
     THEN /\ Set(t, [loc[t] EXCEPT !.todo = DOMAIN loc[t].last_seen_by_key])
          /\ Goto(t, "merge")
     ELSE \E key \in Pick(loc[t].todo) :
            /\ Set(t, IF IsNew(Get(LAST_SEEN, key), loc[t].window_start)
                      THEN [loc[t] EXCEPT !.todo = @ \ { key },
                                          !.new_count = @ + 1]
                      ELSE [loc[t] EXCEPT !.todo = @ \ { key },
                                          !.returning_count = @ + 1])
            /\ UNCHANGED pc
  /\ UNCHANGED << config, LAST_SEEN, LAST_SHORT_COUNT, LAST_CLEANUP, clock,
                  polls, resp, busy, cw >>

\* app.py:282-284, one iteration up to the test of line 284
MergeGet(t) ==
  /\ pc[t] = "merge"
  /\ IF loc[t].todo = { }
     THEN /\ Goto(t, "gate")
          /\ UNCHANGED loc
     ELSE \E key \in Pick(loc[t].todo) :
            LET ts == loc[t].last_seen_by_key[key]
            IN IF MergeWrites(Get(LAST_SEEN, key), ts)
               THEN /\ Set(t, [loc[t] EXCEPT !.todo = @ \ { key },
                                             !.key = Some(key), !.ts = ts])
                    /\ Goto(t, "merge_set")
               ELSE /\ Set(t, [loc[t] EXCEPT !.todo = @ \ { key }])
                    /\ UNCHANGED pc
  /\ UNCHANGED << config, LAST_SEEN, LAST_SHORT_COUNT, LAST_CLEANUP, clock,
                  polls, resp, busy, cw >>

\* app.py:285
MergeSet(t) ==
  /\ pc[t] = "merge_set"
  /\ LAST_SEEN' = [ k \in DOMAIN LAST_SEEN \cup { Val(loc[t].key) } |->
                      IF k = Val(loc[t].key) THEN loc[t].ts ELSE LAST_SEEN[k] ]
  /\ Set(t, [loc[t] EXCEPT !.key = None, !.ts = 0])
  /\ Goto(t, "merge")
  /\ UNCHANGED << config, LAST_SHORT_COUNT, LAST_CLEANUP, clock, polls, resp,
                  busy, cw >>

\* app.py:287-288
SweepGate(t) ==
  /\ pc[t] = "gate"
  /\ IF SweepDue(loc[t].now, LAST_CLEANUP)
     THEN /\ Set(t, [loc[t] EXCEPT !.cutoff = loc[t].now - SESSION_TTL_SECONDS,
                                   !.swept = TRUE])
          /\ Goto(t, "sweep_list")
     ELSE /\ Goto(t, "delta")
          /\ UNCHANGED loc
  /\ UNCHANGED << config, LAST_SEEN, LAST_SHORT_COUNT, LAST_CLEANUP, clock,
                  polls, resp, busy, cw >>

\* app.py:289: list(LAST_SEEN.keys())
SweepList(t) ==
  /\ pc[t] = "sweep_list"
  /\ Set(t, [loc[t] EXCEPT !.todo = DOMAIN LAST_SEEN])
  /\ Goto(t, "sweep")
  /\ UNCHANGED << config, LAST_SEEN, LAST_SHORT_COUNT, LAST_CLEANUP, clock,
                  polls, resp, busy, cw >>

\* app.py:290, one iteration: LAST_SEEN[key] raises KeyError for a key another
\* request has deleted
SweepRead(t) ==
  /\ pc[t] = "sweep"
  /\ IF loc[t].todo = { }
     THEN /\ Goto(t, "sweep_stamp")
          /\ UNCHANGED loc
     ELSE \E key \in Pick(loc[t].todo) :
            IF key \notin DOMAIN LAST_SEEN
            THEN /\ Set(t, [loc[t] EXCEPT !.todo = { }, !.outcome = "KeyError"])
                 /\ Goto(t, "idle")
            ELSE IF Expired(LAST_SEEN[key], loc[t].cutoff)
            THEN /\ Set(t, [loc[t] EXCEPT !.todo = @ \ { key },
                                          !.key = Some(key)])
                 /\ Goto(t, "sweep_del")
            ELSE /\ Set(t, [loc[t] EXCEPT !.todo = @ \ { key }])
                 /\ UNCHANGED pc
  /\ UNCHANGED << config, LAST_SEEN, LAST_SHORT_COUNT, LAST_CLEANUP, clock,
                  polls, resp, busy, cw >>

\* app.py:291
SweepDel(t) ==
  /\ pc[t] = "sweep_del"
  /\ IF Val(loc[t].key) \notin DOMAIN LAST_SEEN
     THEN /\ Set(t, [loc[t] EXCEPT !.todo = { }, !.key = None,
                                   !.outcome = "KeyError"])
          /\ Goto(t, "idle")
          /\ UNCHANGED LAST_SEEN
     ELSE /\ LAST_SEEN' = [ k \in DOMAIN LAST_SEEN \ { Val(loc[t].key) } |->
                              LAST_SEEN[k] ]
          /\ Set(t, [loc[t] EXCEPT !.key = None])
          /\ Goto(t, "sweep")
  /\ UNCHANGED << config, LAST_SHORT_COUNT, LAST_CLEANUP, clock, polls, resp,
                  busy, cw >>

\* app.py:292
SweepStamp(t) ==
  /\ pc[t] = "sweep_stamp"
  /\ LAST_CLEANUP' = loc[t].now
  /\ Goto(t, "delta")
  /\ UNCHANGED << config, LAST_SEEN, LAST_SHORT_COUNT, clock, polls, resp,
                  loc, busy, cw >>

\* app.py:294-297
DeltaTest(t) ==
  /\ pc[t] = "delta"
  /\ Goto(t, IF IsNone(LAST_SHORT_COUNT) THEN "delta_write" ELSE "delta_sub")
  /\ UNCHANGED << config, LAST_SEEN, LAST_SHORT_COUNT, LAST_CLEANUP, clock,
                  polls, resp, loc, busy, cw >>

\* app.py:298
DeltaSub(t) ==
  /\ pc[t] = "delta_sub"
  /\ Set(t, [loc[t] EXCEPT !.delta_short =
               Some(Cardinality(loc[t].active_keys) - Val(LAST_SHORT_COUNT))])
  /\ Goto(t, "delta_pos")
  /\ UNCHANGED << config, LAST_SEEN, LAST_SHORT_COUNT, LAST_CLEANUP, clock,
                  polls, resp, busy, cw >>

\* app.py:299
DeltaPos(t) ==
  /\ pc[t] = "delta_pos"
  /\ Goto(t, IF Val(LAST_SHORT_COUNT) > 0 THEN "delta_div" ELSE "delta_write")
  /\ UNCHANGED << config, LAST_SEEN, LAST_SHORT_COUNT, LAST_CLEANUP, clock,
                  polls, resp, loc, busy, cw >>

\* app.py:300: the division raises ZeroDivisionError when another request has
\* stored 0 since line 299
DeltaDiv(t) ==
  /\ pc[t] = "delta_div"
  /\ IF Val(LAST_SHORT_COUNT) = 0
     THEN /\ Set(t, [loc[t] EXCEPT !.outcome = "ZeroDivisionError"])
          /\ Goto(t, "idle")
     ELSE /\ Set(t, [loc[t] EXCEPT !.delta_short_pct =
                       Some(Ratio(Val(loc[t].delta_short),
                                  Val(LAST_SHORT_COUNT)))])
          /\ Goto(t, "delta_write")
  /\ UNCHANGED << config, LAST_SEEN, LAST_SHORT_COUNT, LAST_CLEANUP, clock,
                  polls, resp, busy, cw >>

\* app.py:301, then lines 303-377 on locals only
DeltaWrite(t) ==
  /\ pc[t] = "delta_write"
  /\ LAST_SHORT_COUNT' = NextShortCount(Cardinality(loc[t].active_keys))
  /\ Set(t, [loc[t] EXCEPT !.outcome = "ok"])
  /\ Goto(t, "idle")
  /\ UNCHANGED << config, LAST_SEEN, LAST_CLEANUP, clock, polls, resp, busy,
                  cw >>

Step(t) ==
  \/ Begin(t) \/ ClassifyKey(t) \/ MergeGet(t) \/ MergeSet(t)
  \/ SweepGate(t) \/ SweepList(t) \/ SweepRead(t) \/ SweepDel(t)
  \/ SweepStamp(t)
  \/ DeltaTest(t) \/ DeltaSub(t) \/ DeltaPos(t) \/ DeltaDiv(t)
  \/ DeltaWrite(t)

Next == \E t \in Threads : Step(t)

Spec == Init /\ [][Next]_vars

(***************************************************************************)
(* WindowSpec: compute_window_stats called once on any list of at most     *)
(* MaxEvents events, whatever their kind, status and timestamp, for        *)
(* positive, zero and negative window lengths.                             *)
(***************************************************************************)
Key1 == << "10.0.0.1", "|", UserAgent >>
Key2 == << "10.0.0.2", "|", UserAgent >>

Event(key, ts, kind, status) ==
  [ ts |-> ts, ip |-> key[1], ua |-> key[3],
    path |-> IF kind = "segment" THEN SegmentPath
             ELSE IF kind = "playlist" THEN PlaylistPath ELSE OtherPath,
    status |-> status, kind |-> kind, key |-> key ]

WindowEvents(now) ==
  { Event(key, Some(now - age), ks[1], ks[2]) :
      key \in { Key1, Key2 }, age \in { 0, 30 },
      ks \in { << "segment", Some(200) >>, << "segment", Some(404) >>,
               << "playlist", Some(200) >> } }
  \cup
  { Event(Key1, None, "segment", Some(200)),
    Event(Key1, Some(now - 70), "segment", Some(200)),
    Event(Key1, Some(now + 5), "segment", Some(200)),
    Event(Key2, Some(now - 10), "segment", None),
    Event(Key2, Some(now), "playlist", Some(503)),
    Event(Key2, Some(now), "other", Some(200)) }

WindowLengths == { 0 - 5, 0, 30, DEFAULT_WINDOW_SECONDS }

WindowInit ==
  /\ WINDOW_SECONDS = DEFAULT_WINDOW_SECONDS
  /\ LONG_WINDOW_SECONDS = DEFAULT_LONG_WINDOW_SECONDS
  /\ SESSION_TTL_SECONDS = DEFAULT_SESSION_TTL_SECONDS
  /\ InitGlobals
  /\ clock = StartTime
  /\ polls = 0
  /\ resp = NoResp
  /\ pc = [t \in Threads |-> "idle"]
  /\ loc = [t \in Threads |-> << >>]
  /\ busy = [ n |-> 0, base |-> << >> ]
  /\ \E events \in SeqsUpTo(WindowEvents(StartTime), MaxEvents),
        window_seconds \in WindowLengths :
       cw = [ done |-> FALSE, events |-> events,
              window_seconds |-> window_seconds, now |-> StartTime ]

\* app.py:136-226
ComputeWindow ==
  /\ ~cw.done
  /\ cw' = [ done |-> TRUE, events |-> cw.events,
             window_seconds |-> cw.window_seconds, now |-> cw.now,
             stats |-> compute_window_stats(cw.events, cw.window_seconds,
                                            cw.now) ]
  /\ UNCHANGED << config, LAST_SEEN, LAST_SHORT_COUNT, LAST_CLEANUP, clock,
                  polls, resp, pc, loc, busy >>

WindowSpec == WindowInit /\ [][ComputeWindow]_vars

(***************************************************************************)
(* Properties of compute_window_stats, checked under WindowSpec.  They are *)
(* stated over the inputs of the call, cw.events, cw.window_seconds and    *)
(* cw.now, not over the operators above.                                   *)
(***************************************************************************)
\* the positions of the events a window of cw.window_seconds includes
CwIncluded ==
  { i \in 1..Len(cw.events) :
      /\ cw.events[i].ts /= << >>
      /\ cw.events[i].ts[1] >= cw.now - cw.window_seconds }

CwOfKind(kind) == { i \in CwIncluded : cw.events[i].kind = kind }

CwOk(kind) ==
  { i \in CwOfKind(kind) :
      cw.events[i].status = << >> \/ cw.events[i].status[1] < 400 }

CwFail(kind) ==
  { i \in CwOfKind(kind) :
      cw.events[i].status /= << >> /\ cw.events[i].status[1] >= 400 }

\* C6: coverage_ratio is absent exactly when window_seconds <= 0 and lies in
\* [0, 1] otherwise; the divisor of the per-second rates is
\* min(window_seconds, coverage_seconds) when coverage_seconds > 0, else
\* window_seconds, floored at 1, hence >= 1.
C6_CoverageAndEffectiveWindow ==
  cw.done =>
    LET st == cw.stats
        cov == st.coverage_seconds
        w == IF cov > 0
             THEN (IF cw.window_seconds <= cov THEN cw.window_seconds ELSE cov)
             ELSE cw.window_seconds
        floored == IF w < 1 THEN 1 ELSE w
    IN /\ (st.coverage_ratio = << >>) <=> (cw.window_seconds <= 0)
       /\ st.coverage_ratio /= << >> =>
            /\ st.coverage_ratio[1].den > 0
            /\ 0 <= st.coverage_ratio[1].num
            /\ st.coverage_ratio[1].num <= st.coverage_ratio[1].den
       /\ st.effective_window = floored
       /\ st.effective_window >= 1
       /\ st.segment_per_sec.den = st.effective_window
       /\ st.playlist_per_sec.den = st.effective_window
       /\ st.segment_per_sec.num = st.segment_requests
       /\ st.playlist_per_sec.num = st.playlist_requests

\* a window only partly covered by the log: the rates are taken over the
\* covered 30 s and the ratio is strictly inside (0, 1)
C6_Witness ==
  /\ cw.done
  /\ cw.window_seconds = 60
  /\ cw.stats.coverage_seconds = 30
  /\ cw.stats.effective_window = 30
  /\ cw.stats.coverage_ratio = << [num |-> 30, den |-> 60] >>
  /\ cw.stats.segment_requests > 0

\* C8: per kind, the success rate is absent iff the window holds no event of
\* the kind; otherwise it is ok / (ok + fail), with ok the kind's events of
\* status absent or < 400 and fail those of status >= 400, ok + fail the
\* kind's request count, and the rate within [0, 1].
C8_KindRate(kind, rate, requests) ==
  /\ (rate = << >>) <=> (CwOfKind(kind) = { })
  /\ requests = Cardinality(CwOfKind(kind))
  /\ Cardinality(CwOk(kind)) + Cardinality(CwFail(kind)) = requests
  /\ rate /= << >> =>
       /\ rate[1].num = Cardinality(CwOk(kind))
       /\ rate[1].den = Cardinality(CwOk(kind)) + Cardinality(CwFail(kind))
       /\ 0 <= rate[1].num
       /\ rate[1].num <= rate[1].den

C8_SuccessRates ==
  cw.done =>
    /\ C8_KindRate("segment", cw.stats.segment_success_rate,
                   cw.stats.segment_requests)
    /\ C8_KindRate("playlist", cw.stats.playlist_success_rate,
                   cw.stats.playlist_requests)

\* playlist events only: the segment rate is absent, the playlist rate 1/2
C8_Witness ==
  /\ cw.done
  /\ CwOfKind("playlist") /= { }
  /\ CwOfKind("segment") = { }
  /\ cw.stats.segment_success_rate = << >>
  /\ cw.stats.playlist_success_rate = << [num |-> 1, den |-> 2] >>

\* the timestamps of the included segment events of key with status absent
\* or < 400
CwQualifying(key) ==
  { cw.events[i].ts[1] : i \in { j \in CwOk("segment") : cw.events[j].key = key } }

CwSessionKeys ==
  { cw.events[i].key : i \in CwOk("segment") }

\* C9: the session list has exactly one entry per key with an included
\* segment event of status absent or < 400 (so as many entries as active
\* listeners), each entry being that key's latest minus earliest such
\* timestamp, >= 0; other events neither create nor extend a session.
C9_Sessions ==
  cw.done =>
    LET sd == cw.stats.session_durations
    IN /\ cw.stats.active_keys = CwSessionKeys
       /\ Len(sd) = Cardinality(CwSessionKeys)
       /\ \E f \in [1..Len(sd) -> CwSessionKeys] :
            /\ \A i, j \in 1..Len(sd) : i /= j => f[i] /= f[j]
            /\ \A i \in 1..Len(sd) :
                 /\ sd[i] = SetMax(CwQualifying(f[i])) - SetMin(CwQualifying(f[i]))
                 /\ sd[i] >= 0

\* a listener with one good segment request now and a failed one 30 s
\* earlier: one session, of duration 0
C9_Witness ==
  /\ cw.done
  /\ cw.window_seconds = 60
  /\ Len(cw.events) = 2
  /\ cw.events[1].key = cw.events[2].key
  /\ cw.events[1].kind = "segment" /\ cw.events[1].status = << 404 >>
  /\ cw.events[1].ts = << cw.now - 30 >>
  /\ cw.events[2].kind = "segment" /\ cw.events[2].status = << 200 >>
  /\ cw.events[2].ts = << cw.now >>
  /\ cw.stats.session_durations = << 0 >>


(***************************************************************************)
(* Properties of stats() when the requests are served one after another    *)
(* (SeqSpec).                                                              *)
(***************************************************************************)
\* the step in which a request is served
PollStep == ~resp.done /\ resp'.done

\* C2: on the first poll deltaShort and deltaShortPct are absent; on every
\* later poll deltaShort is the poll's short-window listener count minus
\* the stored count of the poll before, and deltaShortPct is that
\* difference over the stored count exactly when the stored count is > 0
\* and absent otherwise; the poll stores its own count, and nothing but a
\* poll changes the stored count.
C2_DeltaOnSequentialPolls ==
  [][ /\ PollStep =>
           LET count == Cardinality(resp'.short_stats.active_keys)
               p == resp'.payload
           IN /\ p.active_short = count
              /\ LAST_SHORT_COUNT' = Some(count)
              /\ (polls = 0) <=> IsNone(LAST_SHORT_COUNT)
              /\ polls = 0 =>
                   IsNone(p.delta_short) /\ IsNone(p.delta_short_pct)
              /\ polls > 0 =>
                   LET before == Val(LAST_SHORT_COUNT)
                   IN /\ p.delta_short = Some(count - before)
                      /\ before > 0 =>
                           p.delta_short_pct
                             = Some(Ratio(count - before, before))
                      /\ before <= 0 => IsNone(p.delta_short_pct)
      /\ ~PollStep => LAST_SHORT_COUNT' = LAST_SHORT_COUNT ]_vars

\* a later poll that lost listeners and still has some
C2_Witness ==
  /\ resp.done
  /\ polls >= 2
  /\ ~IsNone(resp.payload.delta_short)
  /\ Val(resp.payload.delta_short) < 0
  /\ ~IsNone(resp.payload.delta_short_pct)
  /\ resp.payload.active_short > 0

\* C3: each identity active in the short window is classified against the
\* registry as it stood before the poll: new when the registry has no entry
\* for it or the entry is strictly older than the short window's start,
\* returning when the entry is at or after the short window's start.
C3_ClassifiedAgainstRegistryBefore ==
  [][ PollStep =>
        LET start == resp'.now - WINDOW_SECONDS
            active == resp'.short_stats.active_keys
            fresh == { k \in active :
                         \/ k \notin DOMAIN LAST_SEEN
                         \/ LAST_SEEN[k] < start }
            back == { k \in active :
                        /\ k \in DOMAIN LAST_SEEN
                        /\ LAST_SEEN[k] >= start }
        IN /\ resp'.payload.new_short = Cardinality(fresh)
           /\ resp'.payload.returning_short = Cardinality(back) ]_vars

\* a later poll with one listener of each class
C3_Witness ==
  /\ resp.done
  /\ polls >= 2
  /\ resp.payload.new_short = 1
  /\ resp.payload.returning_short = 1

\* the events of the poll's list that fall in a window of the given length
C7_Included(window_seconds) ==
  { i \in 1..Len(resp.events) :
      /\ ~IsNone(resp.events[i].ts)
      /\ Val(resp.events[i].ts) >= resp.now - window_seconds }

\* C7: no event of kind other is in the list handed to the aggregator, and
\* for the short and for the long window segment_requests plus
\* playlist_requests is the number of the list's events in that window.
C7_NoOtherAndCountsAddUp ==
  resp.done =>
    /\ \A i \in 1..Len(resp.events) : resp.events[i].kind /= "other"
    /\ resp.short_stats.segment_requests + resp.short_stats.playlist_requests
         = Cardinality(C7_Included(WINDOW_SECONDS))
    /\ resp.long_stats.segment_requests + resp.long_stats.playlist_requests
         = Cardinality(C7_Included(LONG_WINDOW_SECONDS))

\* the log held a request of kind other next to one that was counted
C7_Witness ==
  /\ resp.done
  /\ "other" \in resp.parsed_kinds
  /\ resp.long_stats.segment_requests + resp.long_stats.playlist_requests >= 1

\* a quotient of the snapshot, or an optional one, has a positive divisor
C10_Divides(r) == r.den > 0
C10_DividesOpt(x) == IsNone(x) \/ Val(x).den > 0

\* C10: a poll with a missing playlist reports ingest down and no playlist
\* age and no latency estimate; a poll with a missing log reports zero
\* requests, errors and listeners, no success rates, no session average and
\* percentiles, and error rates of 0; no quotient of any snapshot has a
\* divisor of 0.
C10_MissingFilesDegrade ==
  resp.done =>
    LET p == resp.payload
    IN /\ resp.playlist_missing =>
            /\ p.ingest_up = FALSE
            /\ IsNone(p.playlist_age_seconds)
            /\ IsNone(p.live_latency_seconds_est)
       /\ resp.log_missing =>
            /\ p.segment_requests = 0 /\ p.playlist_requests = 0
            /\ p.total_4xx = 0 /\ p.total_5xx = 0
            /\ p.active_short = 0 /\ p.active_long = 0
            /\ p.new_short = 0 /\ p.returning_short = 0
            /\ IsNone(p.segment_success_rate)
            /\ IsNone(p.playlist_success_rate)
            /\ IsNone(p.avg_seconds)
            /\ IsNone(p.p25_seconds)
            /\ IsNone(p.p50_seconds)
            /\ IsNone(p.p75_seconds)
            /\ p.sample_count = 0
            /\ p.rate_4xx = Zero /\ p.rate_5xx = Zero
       /\ C10_Divides(p.segment_per_sec) /\ C10_Divides(p.playlist_per_sec)
       /\ C10_Divides(p.rate_4xx) /\ C10_Divides(p.rate_5xx)
       /\ C10_DividesOpt(p.short_coverage_ratio)
       /\ C10_DividesOpt(p.long_coverage_ratio)
       /\ C10_DividesOpt(p.delta_short_pct)
       /\ C10_DividesOpt(p.avg_seconds)
       /\ C10_DividesOpt(p.p25_seconds)
       /\ C10_DividesOpt(p.p50_seconds)
       /\ C10_DividesOpt(p.p75_seconds)
       /\ C10_DividesOpt(p.segment_success_rate)
       /\ C10_DividesOpt(p.playlist_success_rate)

\* both files missing on a later poll, under a short window of length 0
C10_Witness ==
  /\ resp.done
  /\ resp.log_missing
  /\ resp.playlist_missing
  /\ WINDOW_SECONDS = 0
  /\ polls >= 2
  /\ ~IsNone(resp.payload.delta_short)


(***************************************************************************)
(* Properties of stats() when requests overlap (Spec).                     *)
(***************************************************************************)
\* the globals and the reported deltas that result when request first runs
\* lines 273-301 alone on the globals the overlap started from, and request
\* second runs them alone after it
SerialOutcome(first, second) ==
  LET r1 == ListenerTracker(busy.base, loc[first].now, SESSION_TTL_SECONDS,
                            loc[first].active_keys, loc[first].window_start,
                            loc[first].last_seen_by_key)
      g1 == [ LAST_SEEN |-> r1.LAST_SEEN,
              LAST_SHORT_COUNT |-> r1.LAST_SHORT_COUNT,
              LAST_CLEANUP |-> r1.LAST_CLEANUP ]
      r2 == ListenerTracker(g1, loc[second].now, SESSION_TTL_SECONDS,
                            loc[second].active_keys, loc[second].window_start,
                            loc[second].last_seen_by_key)
  IN [ LAST_SEEN |-> r2.LAST_SEEN,
       LAST_SHORT_COUNT |-> r2.LAST_SHORT_COUNT,
       delta |-> [ t \in { first, second } |->
                     IF t = first
                     THEN << r1.delta_short, r1.delta_short_pct >>
                     ELSE << r2.delta_short, r2.delta_short_pct >> ] ]

\* the two overlapping requests ended as in the serial order first, second
EndedAsSerial(first, second) ==
  LET s == SerialOutcome(first, second)
  IN /\ \A t \in Threads : loc[t].outcome = "ok"
     /\ LAST_SEEN = s.LAST_SEEN
     /\ LAST_SHORT_COUNT = s.LAST_SHORT_COUNT
     /\ \A t \in Threads :
          << loc[t].delta_short, loc[t].delta_short_pct >> = s.delta[t]

\* two requests overlapped and both have ended
OverlapEnded == (\A t \in Threads : pc[t] = "idle") /\ busy.n = 2

\* C1: when two polls overlap, the final registry, the final stored short
\* count and the delta each poll reports are those of one of the two serial
\* orders of the polls.
C1_TrackerStepAtomic ==
  OverlapEnded => EndedAsSerial(1, 2) \/ EndedAsSerial(2, 1)

\* C4: when a poll whose sweep ran ends, every key of the registry has a
\* last-seen value of at least that poll's now minus the TTL.
C4_SweptRegistryWithinTTL ==
  [][ \A t \in Threads :
        ( /\ pc[t] /= "idle"
          /\ pc'[t] = "idle"
          /\ loc'[t].outcome = "ok"
          /\ loc'[t].swept )
        => \A k \in DOMAIN LAST_SEEN' :
             LAST_SEEN'[k] >= loc'[t].now - SESSION_TTL_SECONDS ]_vars

\* C5: no step lowers the last-seen value of a key that stays in the
\* registry.
C5_LastSeenNeverDecreases ==
  [][ \A k \in DOMAIN LAST_SEEN \cap DOMAIN LAST_SEEN' :
        LAST_SEEN'[k] >= LAST_SEEN[k] ]_vars

\* each single classification of lines 276-280 follows the rule of C3 on the
\* registry as it stands at that read, which the request's own merge has not
\* yet touched
ClassifiedPerKey ==
  [][ \A t \in Threads :
        (pc[t] = "classify" /\ loc[t].todo /= { } /\ loc'[t] /= loc[t]) =>
          \E key \in loc[t].todo :
            /\ loc'[t].todo = loc[t].todo \ { key }
            /\ LAST_SEEN' = LAST_SEEN
            /\ IF \/ key \notin DOMAIN LAST_SEEN
                  \/ LAST_SEEN[key] < loc[t].now - WINDOW_SECONDS
               THEN /\ loc'[t].new_count = loc[t].new_count + 1
                    /\ loc'[t].returning_count = loc[t].returning_count
               ELSE /\ loc'[t].new_count = loc[t].new_count
                    /\ loc'[t].returning_count = loc[t].returning_count + 1
      ]_vars


(***************************************************************************)
(* PercentileSpec: one call of percentile (app.py:122-133) on any list of  *)
(* up to MaxValues values and a percentage between 0 and 100.              *)
(***************************************************************************)
SampleValues == 1..5
Percents == { 0, 10, 25, 50, 75, 100 }

PercentileInit ==
  /\ WINDOW_SECONDS = DEFAULT_WINDOW_SECONDS
  /\ LONG_WINDOW_SECONDS = DEFAULT_LONG_WINDOW_SECONDS
  /\ SESSION_TTL_SECONDS = DEFAULT_SESSION_TTL_SECONDS
  /\ InitGlobals
  /\ clock = StartTime
  /\ polls = 0
  /\ resp = NoResp
  /\ pc = [t \in Threads |-> "idle"]
  /\ loc = [t \in Threads |-> << >>]
  /\ busy = [ n |-> 0, base |-> << >> ]
  /\ \E values \in SeqsUpTo(SampleValues, MaxValues), pct \in Percents :
       cw = [ done |-> FALSE, values |-> values, pct |-> pct ]

\* app.py:122-133
ComputePercentile ==
  /\ ~cw.done
  /\ cw' = [ done |-> TRUE, values |-> cw.values, pct |-> cw.pct,
             result |-> percentile(cw.values, cw.pct) ]
  /\ UNCHANGED << config, LAST_SEEN, LAST_SHORT_COUNT, LAST_CLEANUP, clock,
                  polls, resp, pc, loc, busy >>

PercentileSpec == PercentileInit /\ [][ComputePercentile]_vars

\* the value at 0-based position i of the ascending order of the list v,
\* told by counting the smaller and the not larger elements
C11_AtRank(v, i) ==
  CHOOSE x \in Range(v) :
    /\ Cardinality({ j \in 1..Len(v) : v[j] < x }) <= i
    /\ i < Cardinality({ j \in 1..Len(v) : v[j] <= x })

\* C11: percentile is absent for the empty list, the single value for a
\* list of one, and for n >= 2 values and 0 <= p <= 100 the interpolation
\* lo + (hi - lo) * (k - floor(k)) at rank k = (n-1)*p/100 between the
\* values at positions floor(k) and ceiling(k) of the ascending order; it
\* is the same for every reordering of the list and lies between the
\* least and the greatest value.
C11_Percentile ==
  cw.done =>
    LET v == cw.values
        n == Len(v)
        r == cw.result
        \* k = k100 / 100
        k100 == (n - 1) * cw.pct
        f == CHOOSE i \in 0..(n - 1) : 100 * i <= k100 /\ k100 < 100 * (i + 1)
        c == CHOOSE i \in 0..(n - 1) : 100 * (i - 1) < k100 /\ k100 <= 100 * i
        lo == C11_AtRank(v, f)
        hi == C11_AtRank(v, c)
    IN /\ n = 0 <=> IsNone(r)
       /\ n = 1 => RatioEq(Val(r), Ratio(v[1], 1))
       /\ n >= 2 =>
            /\ Val(r).den > 0
            /\ RatioEq(Val(r), Ratio(100 * lo + (hi - lo) * (k100 - 100 * f),
                                     100))
       /\ n >= 1 =>
            /\ RatioLE(Ratio(SetMin(Range(v)), 1), Val(r))
            /\ RatioLE(Val(r), Ratio(SetMax(Range(v)), 1))
            /\ \A perm \in Permutations(1..n) :
                 LET w == [i \in 1..n |-> v[perm[i]]]
                 IN RatioEq(Val(percentile(w, cw.pct)), Val(r))

\* percentile([3,1,4,2], 50) = 2.5: an unsorted list and a rank between
\* two positions
C11_Witness ==
  /\ cw.done
  /\ cw.values = << 3, 1, 4, 2 >>
  /\ cw.pct = 50
  /\ RatioEq(Val(cw.result), Ratio(5, 2))


(***************************************************************************)
(* top_items (app.py:229-238).  A Counter is the sequence of its           *)
(* << label, count >> items in insertion order, the labels distinct; a     *)
(* label is the sequence of its characters.                                *)
(***************************************************************************)
Whitespace == { " ", "\t" }
Unknown == << "U", "n", "k", "n", "o", "w", "n" >>
Marker == "~"

\* str.strip()
RECURSIVE lstrip(_)
lstrip(label) ==
  IF label /= << >> /\ Head(label) \in Whitespace
  THEN lstrip(Tail(label)) ELSE label

RECURSIVE rstrip(_)
rstrip(label) ==
  IF label /= << >> /\ label[Len(label)] \in Whitespace
  THEN rstrip(SubSeq(label, 1, Len(label) - 1)) ELSE label

strip(label) == rstrip(lstrip(label))

\* lab[:stop], a negative stop counting from the end
SliceTo(lab, stop) ==
  IF stop >= 0 THEN SubSeq(lab, 1, Min(stop, Len(lab)))
  ELSE SubSeq(lab, 1, Max(0, Len(lab) + stop))

\* the count order of most_common forgotten
first_common(items, n) == SubSeq(items, 1, Max(0, Min(n, Len(items))))

\* Counter.most_common(n): the n items of greatest count, in the order of
\* sorted(items, key=count, reverse=True), which keeps equal counts in
\* insertion order
RECURSIVE most_common(_, _)
most_common(items, n) ==
  IF n <= 0 \/ items = << >> THEN << >>
  ELSE
    LET top == SetMax({ items[i][2] : i \in 1..Len(items) })
        at == SetMin({ i \in 1..Len(items) : items[i][2] = top })
        rest == [i \in 1..(Len(items) - 1) |->
                   IF i < at THEN items[i] ELSE items[i + 1]]
    IN << items[at] >> \o most_common(rest, n - 1)

\* app.py:232-236
RenderLabel(label, max_label) ==
  LET stripped == strip(label)
      lab == IF stripped = << >> THEN Unknown ELSE stripped
  IN IF Len(lab) > max_label
     THEN Append(SliceTo(lab, max_label - 1), Marker)
     ELSE lab

\* app.py:229-238
top_items(counter, max_items, max_label) ==
  LET common == most_common(counter, max_items)
  IN [i \in 1..Len(common) |->
        [label |-> RenderLabel(common[i][1], max_label),
         count |-> common[i][2]]]

(***************************************************************************)
(* TopItemsSpec: one call of top_items on any Counter of up to MaxLabels   *)
(* labels, with the limits the program and its defaults use.               *)
(***************************************************************************)
Repeat(c, n) == [i \in 1..n |-> c]

\* labels: three short ones, an empty and a blank one, one with blanks
\* around it, one of 47 and one of 21 characters
SampleLabels ==
  { << "A" >>, << "B" >>, << "C" >>, << >>, << " ", "\t" >>,
    << " ", "V", "L", "C", " " >>, Repeat("x", 47), Repeat("z", 21) }

SampleCounts == { 1, 5, 9 }

\* Counters: distinct labels, each with a count
Counters ==
  { c \in SeqsUpTo(SampleLabels \X SampleCounts, MaxLabels) :
      \A i, j \in 1..Len(c) : i /= j => c[i][1] /= c[j][1] }

\* max_items: the 5 of lines 368-369 and a limit below MaxLabels
ItemLimits == { 2, 5 }
\* max_label: lines 368 and 369
LabelLimits == { 46, 20 }

TopItemsInit ==
  /\ WINDOW_SECONDS = DEFAULT_WINDOW_SECONDS
  /\ LONG_WINDOW_SECONDS = DEFAULT_LONG_WINDOW_SECONDS
  /\ SESSION_TTL_SECONDS = DEFAULT_SESSION_TTL_SECONDS
  /\ InitGlobals
  /\ clock = StartTime
  /\ polls = 0
  /\ resp = NoResp
  /\ pc = [t \in Threads |-> "idle"]
  /\ loc = [t \in Threads |-> << >>]
  /\ busy = [ n |-> 0, base |-> << >> ]
  /\ \E counter \in Counters, max_items \in ItemLimits,
        max_label \in LabelLimits :
       cw = [ done |-> FALSE, counter |-> counter, max_items |-> max_items,
              max_label |-> max_label ]

\* app.py:229-238
ComputeTopItems ==
  /\ ~cw.done
  /\ cw' = [ done |-> TRUE, counter |-> cw.counter,
             max_items |-> cw.max_items, max_label |-> cw.max_label,
             out |-> top_items(cw.counter, cw.max_items, cw.max_label) ]
  /\ UNCHANGED << config, LAST_SEEN, LAST_SHORT_COUNT, LAST_CLEANUP, clock,
                  polls, resp, pc, loc, busy >>

TopItemsSpec == TopItemsInit /\ [][ComputeTopItems]_vars


\* rendered is what the label of a Counter item is shown as: the label
\* without the blanks around it, Unknown when nothing is left, and, when
\* that is longer than max_label, its first max_label - 1 characters and
\* the marker
C12_Shown(label, rendered, max_label) ==
  \E a, b \in 0..Len(label) :
    /\ a + b <= Len(label)
    /\ \A i \in 1..a : label[i] \in Whitespace
    /\ \A i \in (Len(label) - b + 1)..Len(label) : label[i] \in Whitespace
    /\ LET core == SubSeq(label, a + 1, Len(label) - b)
           text == IF core = << >> THEN Unknown ELSE core
       IN /\ core /= << >> =>
               core[1] \notin Whitespace /\ core[Len(core)] \notin Whitespace
          /\ Len(text) <= max_label => rendered = text
          /\ Len(text) > max_label =>
               /\ Len(rendered) = max_label
               /\ rendered[max_label] = Marker
               /\ \A i \in 1..(max_label - 1) : rendered[i] = text[i]

\* C12: top_items returns min(max_items, number of labels) entries, each
\* the count and the shown label of one item of the Counter, no item
\* twice, in non-increasing count order with equal counts in insertion
\* order; an omitted item has no greater count than any returned one, and
\* an equal count only when inserted later; no shown label is longer than
\* max_label.
C12_TopItems ==
  cw.done =>
    LET items == cw.counter
        out == cw.out
        n == Len(items)
        m == Len(out)
    IN /\ m = Min(cw.max_items, n)
       /\ \E at \in [1..m -> 1..n] :
            /\ \A i, j \in 1..m : i /= j => at[i] /= at[j]
            /\ \A i \in 1..m :
                 /\ out[i].count = items[at[i]][2]
                 /\ C12_Shown(items[at[i]][1], out[i].label, cw.max_label)
                 /\ Len(out[i].label) <= cw.max_label
            /\ \A i, j \in 1..m :
                 i < j => \/ out[i].count > out[j].count
                          \/ /\ out[i].count = out[j].count
                             /\ at[i] < at[j]
            /\ \A o \in (1..n) \ { at[i] : i \in 1..m } :
                 \A i \in 1..m :
                   \/ items[o][2] < out[i].count
                   \/ items[o][2] = out[i].count /\ at[i] < o

\* { x*47: 5, blank: 9, C: 1 } with max_items = 2 and max_label = 46 gives
\* [ Unknown: 9, x*45 and the marker: 5 ]
C12_Witness ==
  /\ cw.done
  /\ cw.counter = << << Repeat("x", 47), 5 >>, << << " ", "\t" >>, 9 >>,
                     << << "C" >>, 1 >> >>
  /\ cw.max_items = 2
  /\ cw.max_label = 46
  /\ cw.out = << [label |-> Unknown, count |-> 9],
                 [label |-> Append(Repeat("x", 45), Marker), count |-> 5] >>


(***************************************************************************)
(* The gate of the sweep (app.py:287-292) when requests overlap (Spec).    *)
(***************************************************************************)
\* C13: a request removes a registry entry or records a sweep only when
\* more than 60s have passed since the sweep recorded last, and then it
\* records its own now; a request that finds at most 60s passed leaves
\* the registry's keys and the recorded instant alone.
C13_SweepIntervalGated ==
  [][ \A t \in Threads :
        /\ (pc[t] = "sweep_stamp" /\ pc'[t] = "delta") =>
             /\ LAST_CLEANUP' = loc[t].now
             /\ loc[t].now - LAST_CLEANUP > CLEANUP_INTERVAL
        /\ (pc[t] = "sweep_del" /\ pc'[t] = "sweep") =>
             loc[t].now - LAST_CLEANUP > CLEANUP_INTERVAL
        /\ (pc[t] = "gate" /\ pc'[t] = "delta") =>
             /\ loc[t].now - LAST_CLEANUP <= CLEANUP_INTERVAL
             /\ LAST_CLEANUP' = LAST_CLEANUP
             /\ LAST_SEEN' = LAST_SEEN ]_vars


(***************************************************************************)
(* Which events of the log a poll counts (SeqSpec).  resp.parsed is the    *)
(* list of line 265, before the filter of line 268.                        *)
(***************************************************************************)
\* the positions of the parsed events, in the response r, with a timestamp
\* inside the window of the given length and inside the long window
C14_Counted(r, window_seconds) ==
  { i \in 1..Len(r.parsed) :
      /\ ~IsNone(r.parsed[i].ts)
      /\ Val(r.parsed[i].ts) >= r.now - window_seconds
      /\ Val(r.parsed[i].ts) >= r.now - LONG_WINDOW_SECONDS }

\* the statistics st are those of the events at the positions Q of r alone
C14_OnlyFrom(r, st, Q) ==
  LET ev(i) == r.parsed[i]
      KeyTimes(k) == { Val(ev(i).ts) : i \in { j \in Q : ev(j).key = k } }
  IN /\ st.segment_requests
          = Cardinality({ i \in Q : ev(i).kind = "segment" })
     /\ st.playlist_requests
          = Cardinality({ i \in Q : ev(i).kind = "playlist" })
     /\ st.errors_4xx
          = Cardinality({ i \in Q : /\ ~IsNone(ev(i).status)
                                    /\ Val(ev(i).status) \in 400..499 })
     /\ st.errors_5xx
          = Cardinality({ i \in Q : /\ ~IsNone(ev(i).status)
                                    /\ Val(ev(i).status) \in 500..599 })
     /\ st.active_keys
          = { ev(i).key : i \in { j \in Q : /\ ev(j).kind = "segment"
                                            /\ \/ IsNone(ev(j).status)
                                               \/ Val(ev(j).status) < 400 } }
     /\ st.coverage_seconds
          = IF Q = { } THEN 0
            ELSE Max(0, r.now - SetMin({ Val(ev(i).ts) : i \in Q }))
     /\ DOMAIN st.last_seen_by_key = { ev(i).key : i \in Q }
     /\ \A k \in DOMAIN st.last_seen_by_key :
          st.last_seen_by_key[k] = SetMax(KeyTimes(k))

\* C14: the statistics of the short and of the long window are those of
\* the parsed events whose timestamp is present, at or after now minus the
\* window's length and at or after now minus the long window's length; and
\* a registry entry the poll adds or changes is the timestamp of such an
\* event of the long window.
C14_OnlyEventsInWindows ==
  [][ PollStep =>
        LET r == resp'
            QS == C14_Counted(r, WINDOW_SECONDS)
            QL == C14_Counted(r, LONG_WINDOW_SECONDS)
        IN /\ C14_OnlyFrom(r, r.short_stats, QS)
           /\ C14_OnlyFrom(r, r.long_stats, QL)
           /\ \A k \in DOMAIN LAST_SEEN' :
                \/ k \in DOMAIN LAST_SEEN /\ LAST_SEEN'[k] = LAST_SEEN[k]
                \/ \E i \in QL : /\ r.parsed[i].key = k
                                 /\ Val(r.parsed[i].ts) = LAST_SEEN'[k] ]_vars

\* a short window longer than the long one, and a log with an event inside
\* the short window that is older than the long window next to one that is
\* counted
C14_Witness ==
  /\ resp.done
  /\ WINDOW_SECONDS > LONG_WINDOW_SECONDS
  /\ \E i, j \in 1..Len(resp.parsed) :
       /\ ~IsNone(resp.parsed[i].ts)
       /\ Val(resp.parsed[i].ts) >= resp.now - WINDOW_SECONDS
       /\ Val(resp.parsed[i].ts) < resp.now - LONG_WINDOW_SECONDS
       /\ j \in C14_Counted(resp, WINDOW_SECONDS)


(***************************************************************************)
(* ParseSpec: one call of parse_request (app.py:57-98) on a line of any of *)
(* the shapes below.  A line whose first part is empty starts with a       *)
(* blank.                                                                  *)
(***************************************************************************)
FirstParts ==
  { << Word("10.0.0.1"), Word("-"), Word("-"), Bracket(Some(StartTime)) >>,
    << Word("10.0.0.1"), Word("-"), Word("-"), Bracket(None) >>,
    << Word("10.0.0.1"), Word("-") >>,
    << >> }

RequestParts ==
  { << >>,
    << "GET" >>,
    << "GET", SegmentPath, "HTTP/1.1" >>,
    << "get", SegmentPath >>,
    << "POST", SegmentPath, "HTTP/1.1" >>,
    << "GET", PlaylistPath, "HTTP/1.1" >>,
    << "GET", OtherPath, "HTTP/1.1" >>,
    << "GET", << "/hls/", "live", ".mp4" >>, "HTTP/1.1" >> }

\* what follows the request: nothing, a status and a size, a status alone,
\* and tokens that are no decimal number
AfterParts ==
  { << >>,
    << S200, << "5", "1", "2" >> >>,
    << S404 >>,
    << << "a", "b", "c" >> >>,
    << << "-" >>, << "0" >> >>,
    << << "sup2" >> >>,
    << << "2", "sup2" >> >> }

\* the lines by their number of double quotes: none, one, two, four and six
ParseLines ==
  { << f >> : f \in FirstParts }
  \cup { << f, r >> : f \in FirstParts, r \in RequestParts }
  \cup { << f, r, a >> : f \in FirstParts, r \in RequestParts,
                         a \in AfterParts }
  \cup { << f, r, a, << "-" >>, << >> >> :
           f \in FirstParts, r \in RequestParts, a \in AfterParts }
  \cup { << f, r, a, << "-" >>, << >>, ua, << >> >> :
           f \in FirstParts, r \in RequestParts, a \in AfterParts,
           ua \in { UserAgent, << >> } }

ParseInit ==
  /\ WINDOW_SECONDS = DEFAULT_WINDOW_SECONDS
  /\ LONG_WINDOW_SECONDS = DEFAULT_LONG_WINDOW_SECONDS
  /\ SESSION_TTL_SECONDS = DEFAULT_SESSION_TTL_SECONDS
  /\ InitGlobals
  /\ clock = StartTime
  /\ polls = 0
  /\ resp = NoResp
  /\ pc = [t \in Threads |-> "idle"]
  /\ loc = [t \in Threads |-> << >>]
  /\ busy = [ n |-> 0, base |-> << >> ]
  /\ \E line \in ParseLines : cw = [ done |-> FALSE, line |-> line ]

\* app.py:57-98
ComputeParse ==
  /\ ~cw.done
  /\ cw' = [ done |-> TRUE, line |-> cw.line,
             result |-> parse_request(cw.line) ]
  /\ UNCHANGED << config, LAST_SEEN, LAST_SHORT_COUNT, LAST_CLEANUP, clock,
                  polls, resp, pc, loc, busy >>

ParseSpec == ParseInit /\ [][ComputeParse]_vars

\* the three hard rejects, read off the line
C15_HardReject(line) ==
  \/ Len(line) < 3
  \/ Len(line[2]) < 2
  \/ line[2][1] \notin { "GET", "get" }

\* the status token of the line is a decimal number
C15_Numeric(line) ==
  /\ line[3] /= << >>
  /\ line[3][1] /= << >>
  /\ \A i \in 1..Len(line[3][1]) : line[3][1][i] \in Digits

\* C15: parse_request returns None exactly for the three hard rejects, and
\* for every other line an event whose status is absent exactly when the
\* status token is missing or no number, whose user agent is empty when
\* the line has no user-agent field, whose timestamp is absent when the
\* bracketed date is missing or unparsable, and whose kind is other when
\* the path is neither a segment nor a playlist path.
C15_ParseRejectsOnlyHard ==
  cw.done =>
    LET line == cw.line
        r == cw.result
    IN /\ IsNone(r) <=> C15_HardReject(line)
       /\ ~C15_HardReject(line) =>
            /\ Len(r) = 1
            /\ DOMAIN Val(r)
                 = { "ts", "ip", "ua", "path", "status", "kind", "key" }
            /\ IsNone(Val(r).status) <=> ~C15_Numeric(line)
            /\ Len(line) < 6 => Val(r).ua = << >>
            /\ Len(line) >= 6 => Val(r).ua = line[6]
            /\ IsNone(Val(r).ts) <=>
                 ~\E i \in 1..Len(line[1]) :
                     /\ line[1][i].t = "bracket"
                     /\ line[1][i].v = Some(StartTime)
            /\ Val(r).path = line[2][2]
            /\ Val(r).kind = "other" <=>
                 line[2][2] \notin { SegmentPath, PlaylistPath }


(***************************************************************************)
(* The listener counts of a poll (SeqSpec).                                *)
(***************************************************************************)
\* C16: the new and the returning count of a poll add up to its count of
\* listeners active in the short window, which is the number of keys of
\* the short window's active set.
C16_NewPlusReturningIsActive ==
  resp.done =>
    /\ resp.payload.new_short + resp.payload.returning_short
         = resp.payload.active_short
    /\ resp.payload.active_short = Cardinality(resp.short_stats.active_keys)
    /\ resp.payload.new_short >= 0
    /\ resp.payload.returning_short >= 0

\* a later poll with two active listeners, one of them known
C16_Witness ==
  /\ resp.done
  /\ polls >= 2
  /\ resp.payload.active_short = 2
  /\ resp.payload.returning_short = 1

\* the same sum for a request served on a thread next to another: the
\* keys still to classify and the two counts add up to the active set
ClassifiedOnce ==
  \A t \in Threads :
    /\ pc[t] = "classify" =>
         /\ loc[t].todo \subseteq loc[t].active_keys
         /\ loc[t].new_count + loc[t].returning_count
              + Cardinality(loc[t].todo) = Cardinality(loc[t].active_keys)
    /\ (pc[t] /= "classify" /\ loc[t] /= << >>) =>
         loc[t].new_count + loc[t].returning_count
           = Cardinality(loc[t].active_keys)

\* C17: the keys active in the short window are keys active in the long
\* window, so active_short <= active_long, and each of them has a
\* long-window last-seen value that the registry holds, or exceeds, once
\* the poll has run.
C17_ShortWithinLong ==
  resp.done =>
    /\ resp.short_stats.active_keys \subseteq resp.long_stats.active_keys
    /\ resp.payload.active_short <= resp.payload.active_long
    /\ \A k \in resp.short_stats.active_keys :
         /\ k \in DOMAIN resp.long_stats.last_seen_by_key
         /\ k \in DOMAIN LAST_SEEN
         /\ LAST_SEEN[k] >= resp.long_stats.last_seen_by_key[k]

\* a short window longer than the long one, with a listener in it
C17_Witness ==
  /\ resp.done
  /\ WINDOW_SECONDS > LONG_WINDOW_SECONDS
  /\ resp.payload.active_short >= 1
  /\ \E i \in 1..Len(resp.parsed) :
       /\ resp.parsed[i].kind = "segment"
       /\ ~IsNone(resp.parsed[i].ts)
       /\ Val(resp.parsed[i].ts) >= resp.now - WINDOW_SECONDS
       /\ Val(resp.parsed[i].ts) < resp.now - LONG_WINDOW_SECONDS


(***************************************************************************)
(* Polls that raise (FaultSpec).                                           *)
(***************************************************************************)
\* the step in which a request ends with an exception
RaiseStep == IsNone(resp.error) /\ ~IsNone(resp'.error)

\* C18: a poll that raises returns no snapshot and leaves the registry,
\* the stored short count and the sweep instant as they were; the stored
\* count changes only in a poll that succeeds, to that poll's count, and
\* the delta of a poll that succeeds is its count minus the stored count.
C18_FailedPollKeepsState ==
  [][ /\ RaiseStep =>
           /\ ~resp'.done
           /\ LAST_SEEN' = LAST_SEEN
           /\ LAST_SHORT_COUNT' = LAST_SHORT_COUNT
           /\ LAST_CLEANUP' = LAST_CLEANUP
      /\ PollStep =>
           LET count == resp'.payload.active_short
           IN /\ LAST_SHORT_COUNT' = Some(count)
              /\ resp'.payload.delta_short
                   = IF IsNone(LAST_SHORT_COUNT) THEN None
                     ELSE Some(count - Val(LAST_SHORT_COUNT))
      /\ ~PollStep => LAST_SHORT_COUNT' = LAST_SHORT_COUNT ]_vars

\* a poll that failed on an unreadable file after a poll that registered a
\* listener and ran the sweep
C18_Witness ==
  /\ resp.error = Some("PermissionError")
  /\ LAST_SHORT_COUNT = Some(1)
  /\ DOMAIN LAST_SEEN /= { }
  /\ LAST_CLEANUP = StartTime
  /\ clock > StartTime

====
